---- MODULE Spec2Model ----
(***************************************************************************)
(* Model of the demo-call gateway: the sliding-window rate limiter         *)
(* (checkRateLimit over rateLimitStore) and the two request handlers of    *)
(* the repository, src/api/trigger-call.js ("main") and the handler of    *)
(* src/unnamed/part_000 ("debug").                                         *)
(*                                                                         *)
(* JavaScript values are records [t, ...]; strings are sequences of        *)
(* one-character strings so that toLowerCase, trim and the regular         *)
(* expressions are computed character by character.                        *)
(***************************************************************************)
EXTENDS Integers, Sequences, FiniteSets, TLC

VARIABLES
    now,             \* Date.now(): the process clock, in milliseconds
    rateLimitStore,  \* the Map of trigger-call.js line 5: key -> entry
    env,             \* process.env, fixed for the life of the process
    inv,             \* handler invocations: slot -> locals and response
    args,            \* (maxRequests, windowMs) of direct checkRateLimit calls
    ret,             \* the key and return value of the last direct call
    admitted         \* history: key -> timestamps checkRateLimit recorded

vars == <<now, rateLimitStore, env, inv, args, ret, admitted>>

----------------------------------------------------------------------------
(* Bounds of the model *)

\* direct checkRateLimit calls are made with maxRequests in 1..MaxLimit
MaxLimit == 2
\* the clock of the rate-limiter specification advances MaxTicks times
MaxTicks == 3

----------------------------------------------------------------------------
(* JavaScript values and strings *)

Undefined == [t |-> "undefined"]
Str(s) == [t |-> "string", s |-> s]
Num(n) == [t |-> "number", n |-> n]
Bool(b) == [t |-> "boolean", b |-> b]
\* an object literal or a parsed JSON object: f holds its properties
Obj(f) == [t |-> "object", f |-> f]
\* a text whose characters no code inspects is kept as one piece
Text(piece) == Str(<<piece>>)

\* ToBoolean: undefined, "" and 0 are falsy
Truthy(v) ==
    CASE v.t = "undefined" -> FALSE
      [] v.t = "string" -> Len(v.s) > 0
      [] v.t = "number" -> v.n # 0
      [] v.t = "boolean" -> v.b
      [] v.t = "object" -> TRUE

\* obj.name: undefined when the property is missing
Get(obj, name) ==
    IF obj.t = "object" /\ name \in DOMAIN obj.f THEN obj.f[name] ELSE Undefined

\* a || b
OrElse(a, b) == IF Truthy(a) THEN a ELSE b

Digit == {"0", "1", "2", "3", "4", "5", "6", "7", "8", "9"}
DigitChars == <<"0", "1", "2", "3", "4", "5", "6", "7", "8", "9">>
Uppers == <<"A", "B", "C", "D", "E", "F", "G", "Z">>
Lowers == <<"a", "b", "c", "d", "e", "f", "g", "z">>
WhiteSpace == {" ", "\t", "\n"}

\* Number.prototype.toString of a non-negative integer: its decimal digits
RECURSIVE Decimal(_)
Decimal(n) ==
    IF n < 10 THEN <<DigitChars[n + 1]>>
    ELSE Decimal(n \div 10) \o <<DigitChars[(n % 10) + 1]>>

\* String(v), the coercion RegExp.prototype.test applies to its argument
StringOf(v) ==
    CASE v.t = "string" -> v.s
      [] v.t = "number" -> Decimal(v.n)
      [] v.t = "undefined" -> <<"u", "n", "d", "e", "f", "i", "n", "e", "d">>

LowerMap == [i \in DOMAIN Uppers |-> Uppers[i] :> Lowers[i]]
LowerOf == LowerMap[1] @@ LowerMap[2] @@ LowerMap[3] @@ LowerMap[4]
           @@ LowerMap[5] @@ LowerMap[6] @@ LowerMap[7] @@ LowerMap[8]
LowerChar(c) == IF c \in DOMAIN LowerOf THEN LowerOf[c] ELSE c

\* String.prototype.toLowerCase
toLowerCase(s) == [i \in DOMAIN s |-> LowerChar(s[i])]

\* String.prototype.trim: drops leading and trailing white space
RECURSIVE trimStart(_)
trimStart(s) ==
    IF s # <<>> /\ Head(s) \in WhiteSpace THEN trimStart(Tail(s)) ELSE s
RECURSIVE trimEnd(_)
trimEnd(s) ==
    IF s # <<>> /\ s[Len(s)] \in WhiteSpace
    THEN trimEnd(SubSeq(s, 1, Len(s) - 1)) ELSE s
\* a trim that leaves the trailing white space
trimLeadingOnly(s) == trimStart(s)
trim(s) == trimEnd(trimStart(s))

\* Math.ceil(a / b) for an integer a and b > 0
CeilDiv(a, b) == -((-a) \div b)

----------------------------------------------------------------------------
(* The rate limiter *)

EmptyStore == [k \in {} |-> 0]

\* a filter that keeps the timestamp that is exactly windowMs old
filterKeepsBoundary(requests, windowStart) ==
    SelectSeq(requests, LAMBDA time : time >= windowStart)

\* a filter that prunes nothing
filterKeepsAll(requests, windowStart) == requests

\* entry.requests.filter(time => time > windowStart)
filter(requests, windowStart) ==
    SelectSeq(requests, LAMBDA time : time > windowStart)

\* a limit check that is off by one
limitExceeded(count, maxRequests) == count > maxRequests

\* entry.count >= maxRequests
limitReached(count, maxRequests) == count >= maxRequests

\* a retryAfter that is rounded down
retryAfterFloor(resetTime, t) == (resetTime - t) \div 1000

\* Math.ceil((resetTime - now) / 1000)
retryAfter(resetTime, t) == CeilDiv(resetTime - t, 1000)

\* a push whose result is lost: the timestamp is not stored
pushLost(requests, t) == requests

\* entry.requests.push(now)
push(requests, t) == Append(requests, t)

\* a limiter that pushes the timestamp before it tests the limit, so that a
\* rejected call is recorded too
checkRateLimitCountsRejected(store, ip, maxRequests, windowMs, t) ==
    LET entry == IF ip \in DOMAIN store THEN store[ip]
                 ELSE [requests |-> <<>>, count |-> 0]
        kept == filter(entry.requests, t - windowMs)
        recorded == [requests |-> push(kept, t), count |-> Len(kept) + 1]
    IN  IF limitReached(Len(kept), maxRequests)
        THEN [store |-> (ip :> recorded) @@ store,
              result |-> [allowed |-> FALSE,
                          remaining |-> 0,
                          resetTime |-> kept[1] + windowMs,
                          retryAfter |-> retryAfter(kept[1] + windowMs, t)]]
        ELSE [store |-> (ip :> recorded) @@ store,
              result |-> [allowed |-> TRUE,
                          remaining |-> maxRequests - recorded.count,
                          resetTime |-> t + windowMs]]

\* a limiter that keeps one entry for all keys
checkRateLimitOneEntry(store, ip, maxRequests, windowMs, t) ==
    LET entry == IF <<"*">> \in DOMAIN store THEN store[<<"*">>]
                 ELSE [requests |-> <<>>, count |-> 0]
        kept == filter(entry.requests, t - windowMs)
        pruned == [requests |-> kept, count |-> Len(kept)]
        recorded == [requests |-> push(kept, t), count |-> Len(kept) + 1]
    IN  IF limitReached(Len(kept), maxRequests)
        THEN [store |-> (<<"*">> :> pruned) @@ store,
              result |-> [allowed |-> FALSE,
                          remaining |-> 0,
                          resetTime |-> kept[1] + windowMs,
                          retryAfter |-> retryAfter(kept[1] + windowMs, t)]]
        ELSE [store |-> (<<"*">> :> recorded) @@ store,
              result |-> [allowed |-> TRUE,
                          remaining |-> maxRequests - recorded.count,
                          resetTime |-> t + windowMs]]

\* checkRateLimit(ip, maxRequests, windowMs) at clock value t on the Map
\* store: the Map afterwards and the value returned
checkRateLimit(store, ip, maxRequests, windowMs, t) ==
    LET windowStart == t - windowMs
        entry == IF ip \in DOMAIN store THEN store[ip]
                 ELSE [requests |-> <<>>, count |-> 0]
        kept == filter(entry.requests, windowStart)
        pruned == [requests |-> kept, count |-> Len(kept)]
    IN  IF limitReached(pruned.count, maxRequests)
        THEN LET oldestRequest == pruned.requests[1]
                 resetTime == oldestRequest + windowMs
             IN  [store |-> (ip :> pruned) @@ store,
                  result |-> [allowed |-> FALSE,
                              remaining |-> 0,
                              resetTime |-> resetTime,
                              retryAfter |-> retryAfter(resetTime, t)]]
        ELSE LET recorded == [requests |-> push(pruned.requests, t),
                              count |-> pruned.count + 1]
             IN  [store |-> (ip :> recorded) @@ store,
                  result |-> [allowed |-> TRUE,
                              remaining |-> maxRequests - recorded.count,
                              resetTime |-> t + windowMs]]

\* the history variable follows entry.requests.push(now)
Record(hist, ip, result, t) ==
    IF result.allowed
    THEN (ip :> (IF ip \in DOMAIN hist THEN Append(hist[ip], t) ELSE <<t>>))
         @@ hist
    ELSE hist

----------------------------------------------------------------------------
(* Regular expressions of fixed length: atoms are (class, count) pairs *)

RECURSIVE Classes(_)
Classes(atoms) ==
    IF atoms = <<>> THEN <<>>
    ELSE [i \in 1..Head(atoms).n |-> Head(atoms).cls] \o Classes(Tail(atoms))

\* RegExp.prototype.test on the string s
test(regex, s) ==
    LET cs == Classes(regex.atoms)
    IN  \E k \in 0..Len(s) :
            /\ regex.anchorStart => k = 0
            /\ regex.anchorEnd => k + Len(cs) = Len(s)
            /\ k + Len(cs) <= Len(s)
            /\ \A i \in 1..Len(cs) : s[k + i] \in cs[i]

\* the expression without its end anchor
phoneRegexOpenEnd ==
    [anchorStart |-> TRUE, anchorEnd |-> FALSE,
     atoms |-> <<[cls |-> {"+"}, n |-> 1], [cls |-> {"1"}, n |-> 1],
                 [cls |-> Digit, n |-> 10]>>]

\* /^\+1\d{10}$/
phoneRegex ==
    [anchorStart |-> TRUE, anchorEnd |-> TRUE,
     atoms |-> <<[cls |-> {"+"}, n |-> 1], [cls |-> {"1"}, n |-> 1],
                 [cls |-> Digit, n |-> 10]>>]

----------------------------------------------------------------------------
(* Requests and responses *)

\* s.split(',')[0]
firstOfSplit(s) ==
    IF \E i \in DOMAIN s : s[i] = ","
    THEN SubSeq(s, 1, (CHOOSE i \in DOMAIN s :
                         s[i] = "," /\ \A j \in 1..(i - 1) : s[j] # ",") - 1)
    ELSE s

unknown == <<"u", "n", "k", "n", "o", "w", "n">>

\* the rate-limit key of a request
clientIp(req) ==
    LET xff == req.headers.xff
        first == IF xff.t = "string" THEN Str(trim(firstOfSplit(xff.s)))
                 ELSE Undefined
    IN  OrElse(OrElse(OrElse(first, req.headers.realIp), req.remoteAddress),
               Str(unknown)).s

NoHeaders == [h \in {} |-> <<>>]
CorsHeaders ==
    ("Access-Control-Allow-Origin" :> <<"*">>)
    @@ ("Access-Control-Allow-Methods" :> <<"POST, OPTIONS">>)
    @@ ("Access-Control-Allow-Headers" :> <<"Content-Type">>)
JsonHeader == ("Content-Type" :> <<"application/json">>)

\* JSON.stringify leaves out the properties whose value is undefined
json(fields) ==
    [k \in {g \in DOMAIN fields : fields[g].t # "undefined"} |-> fields[k]]

\* res.status(status).json(fields), with the headers set before it
Json(status, headers, fields) ==
    [status |-> status, headers |-> headers, hasBody |-> TRUE,
     body |-> json(fields)]

\* res.status(status).end()
End(status, headers) ==
    [status |-> status, headers |-> headers, hasBody |-> FALSE,
     body |-> [k \in {} |-> Undefined]]

NoResponse == [status |-> 0, headers |-> NoHeaders, hasBody |-> FALSE,
               body |-> [k \in {} |-> Undefined]]
NoRateLimit == [allowed |-> FALSE, remaining |-> 0, resetTime |-> 0,
                none |-> TRUE]

\* what an invocation has done: its position, its response, the Map and
\* the history after it, its rateLimit local, the upstream calls it placed
Step(pc, res, store, hist, rateLimit, calls) ==
    [pc |-> pc, res |-> res, store |-> store, hist |-> hist,
     rateLimit |-> rateLimit, calls |-> calls]

\* the catch block of trigger-call.js: 500 with the error's message
Caught(message, store, hist, rateLimit, calls) ==
    Step("done",
         Json(500, NoHeaders,
              [success |-> Bool(FALSE),
               error |-> OrElse(message, Text("Server error"))]),
         store, hist, rateLimit, calls)

----------------------------------------------------------------------------
(* src/api/trigger-call.js: module.exports *)

\* the arguments of checkRateLimit(clientIp, 10, 60000)
HandlerMaxRequests == 10
HandlerWindowMs == 60000

EmptyBody == Obj([k \in {} |-> Undefined])

\* !password_hash || password_hash.toLowerCase() !== expected?.toLowerCase()
\* for a string password_hash
invalidPassword(password_hash, expected) ==
    \/ ~Truthy(password_hash)
    \/ expected.t = "undefined"
    \/ toLowerCase(password_hash.s) # toLowerCase(expected.s)

\* the payload of the fetch call
mainPayload(e, phone_number, business_name, owner_name) ==
    [url |-> "https://api.elevenlabs.io/v1/convai/conversations",
     agent_id |-> e.ELEVENLABS_AGENT_ID,
     phone_number |-> phone_number,
     business_name |-> business_name,
     owner_name |-> OrElse(owner_name, Str(<<>>))]

\* a fetch call whose promise is not awaited: the success response is sent
\* while the call is in flight
fetchNotAwaited(store, hist, rateLimit, payload) ==
    Step("awaiting",
         Json(200, NoHeaders,
              [success |-> Bool(TRUE), status |-> Text("initiated")]),
         store, hist, rateLimit, <<payload>>)

\* await fetch(...): one call is placed and the handler is suspended, with
\* no response sent, until the call settles
awaitFetch(store, hist, rateLimit, payload) ==
    Step("awaiting", NoResponse, store, hist, rateLimit, <<payload>>)

\* the try block up to the fetch call
mainTry(req, store, hist, rateLimit, e) ==
    LET body == OrElse(req.body, EmptyBody)
        phone_number == Get(body, "phone_number")
        business_name == Get(body, "business_name")
        owner_name == Get(body, "owner_name")
        password_hash == Get(body, "password_hash")
        Fail(status, message) ==
            Step("done",
                 Json(status, NoHeaders,
                      [success |-> Bool(FALSE), error |-> Text(message)]),
                 store, hist, rateLimit, <<>>)
    IN  IF Truthy(password_hash) /\ password_hash.t # "string"
        THEN Caught(Text("password_hash.toLowerCase is not a function"),
                    store, hist, rateLimit, <<>>)
        ELSE IF invalidPassword(password_hash, e.ACCESS_PASSWORD_HASH)
        THEN Fail(401, "Invalid password")
        ELSE IF ~test(phoneRegex, StringOf(phone_number))
        THEN Fail(400, "Invalid phone format. Use +1XXXXXXXXXX")
        ELSE IF ~Truthy(business_name)
        THEN Fail(400, "Business name required (min 2 chars)")
        ELSE IF business_name.t # "string"
        THEN Caught(Text("business_name.trim is not a function"),
                    store, hist, rateLimit, <<>>)
        ELSE IF Len(trim(business_name.s)) < 2
        THEN Fail(400, "Business name required (min 2 chars)")
        ELSE IF ~Truthy(e.ELEVENLABS_API_KEY) \/ ~Truthy(e.ELEVENLABS_AGENT_ID)
        THEN Fail(500, "Server configuration error")
        ELSE awaitFetch(store, hist, rateLimit,
                        mainPayload(e, phone_number, business_name, owner_name))

\* the 429 answer of a rejected request
tooManyRequests(store, hist, rateLimit) ==
    Step("done",
         Json(429, ("Retry-After" :> Decimal(rateLimit.retryAfter)),
              [success |-> Bool(FALSE),
               error |-> Str(<<"Too many requests. Try again in ">>
                             \o Decimal(rateLimit.retryAfter) \o <<"s.">>)]),
         store, hist, rateLimit, <<>>)

\* the answer to a CORS preflight
preflight(store, hist) ==
    Step("done", End(200, CorsHeaders), store, hist, NoRateLimit, <<>>)

methodNotAllowed(store, hist) ==
    Step("done",
         Json(405, JsonHeader,
              [success |-> Bool(FALSE), error |-> Text("Method not allowed")]),
         store, hist, NoRateLimit, <<>>)

\* a handler that checks the rate limit before it looks at the method
mainHandlerLimitsFirst(req, store, hist, t, e) ==
    LET rl == checkRateLimit(store, clientIp(req), HandlerMaxRequests,
                             HandlerWindowMs, t)
        hist2 == Record(hist, clientIp(req), rl.result, t)
    IN  IF ~rl.result.allowed THEN tooManyRequests(rl.store, hist2, rl.result)
        ELSE IF req.method = "OPTIONS" THEN preflight(rl.store, hist2)
        ELSE IF req.method # "POST" THEN methodNotAllowed(rl.store, hist2)
        ELSE mainTry(req, rl.store, hist2, rl.result, e)

\* the handler from its entry to its first await or its return
mainHandler(req, store, hist, t, e) ==
    IF req.method = "OPTIONS" THEN preflight(store, hist)
    ELSE IF req.method # "POST" THEN methodNotAllowed(store, hist)
    ELSE LET rl == checkRateLimit(store, clientIp(req), HandlerMaxRequests,
                                  HandlerWindowMs, t)
             rateLimit == rl.result
             hist2 == Record(hist, clientIp(req), rateLimit, t)
         IN  IF ~rateLimit.allowed
             THEN tooManyRequests(rl.store, hist2, rateLimit)
             ELSE mainTry(req, rl.store, hist2, rateLimit, e)

\* a handler that hands the provider's error status on to the caller
mainResumePassesStatus(cur, up) ==
    IF up.kind = "response" /\ up.data.t # "invalid"
                            /\ up.status \notin 200..299
    THEN Json(up.status, NoHeaders,
              [success |-> Bool(FALSE),
               error |-> OrElse(Get(up.data, "detail"),
                                Str(<<"ElevenLabs error: ">>
                                    \o Decimal(up.status)))])
    ELSE Caught(Text("fetch failed"), <<>>, <<>>, cur.rateLimit, cur.calls).res

\* a catch block that takes the status from the wording of the message
mainResumeStatusFromMessage(cur, up) ==
    LET message == IF up.kind = "response" /\ up.data.t # "invalid"
                   THEN Get(up.data, "detail") ELSE Undefined
    IN  Json(IF message = Text("provider detail one") THEN 429 ELSE 500,
             NoHeaders,
             [success |-> Bool(FALSE),
              error |-> OrElse(message, Text("Server error"))])

\* the handler after the fetch call settled: up is what the provider did
mainResume(cur, up) ==
    LET Throw(message) ==
            Caught(message, <<>>, <<>>, cur.rateLimit, cur.calls).res
        data == up.data
        ok == up.status \in 200..299
    IN  IF up.kind = "rejected" THEN Throw(Text("fetch failed"))
        ELSE IF data.t = "invalid"
        THEN Throw(Text("Unexpected token < in JSON at position 0"))
        ELSE IF ~ok /\ up.status = 404
        THEN Throw(Text("Agent not found. Check if agent is published and phone is enabled."))
        ELSE IF ~ok /\ up.status = 401
        THEN Throw(Text("Invalid API key"))
        ELSE IF ~ok
        THEN Throw(OrElse(Get(data, "detail"),
                          Str(<<"ElevenLabs error: ">> \o Decimal(up.status))))
        ELSE Json(200, NoHeaders,
                  [success |-> Bool(TRUE),
                   conversation_id |-> OrElse(Get(data, "conversation_id"),
                                              Get(data, "call_id")),
                   status |-> Text("initiated"),
                   message |-> Str(<<"Demo call started to ">>
                                   \o Get(OrElse(cur.req.body, EmptyBody),
                                          "business_name").s)])

----------------------------------------------------------------------------
(* src/unnamed/part_000: module.exports *)

\* the catch block of part_000: 500 with the error's message and stack
debugCaught(message) ==
    Json(500, NoHeaders, [error |-> message, stack |-> Text("stack")])

debugPayload(e, phone_number, business_name, owner_name) ==
    [url |-> "https://api.us.elevenlabs.io/v1/convai/twilio/outbound-call",
     agent_id |-> e.ELEVENLABS_AGENT_ID,
     agent_phone_number_id |-> e.ELEVENLABS_PHONE_NUMBER_ID,
     to_number |-> phone_number,
     business_name |-> business_name,
     owner_name |-> OrElse(owner_name, Str(<<>>))]

\* the handler from its entry to its await or its return
debugHandler(req, store, hist, e) ==
    LET body == OrElse(req.body, EmptyBody)
        phone_number == Get(body, "phone_number")
        business_name == Get(body, "business_name")
        owner_name == Get(body, "owner_name")
        password_hash == Get(body, "password_hash")
        Done(res) == Step("done", res, store, hist, NoRateLimit, <<>>)
    IN  IF req.method = "OPTIONS" THEN Done(End(200, CorsHeaders))
        ELSE IF ~Truthy(e.ACCESS_PASSWORD_HASH)
        THEN Done(Json(500, NoHeaders,
                       [error |-> Text("PASSWORD_HASH not set")]))
        ELSE IF password_hash.t \notin {"undefined", "string"}
        THEN Done(debugCaught(
                      Text("password_hash?.toLowerCase is not a function")))
        ELSE IF \/ password_hash.t = "undefined"
                \/ toLowerCase(password_hash.s)
                     # toLowerCase(e.ACCESS_PASSWORD_HASH.s)
        THEN Done(Json(401, NoHeaders, [error |-> Text("Wrong password")]))
        ELSE IF \/ ~Truthy(e.ELEVENLABS_API_KEY)
                \/ ~Truthy(e.ELEVENLABS_AGENT_ID)
                \/ ~Truthy(e.ELEVENLABS_PHONE_NUMBER_ID)
        THEN Done(Json(500, NoHeaders,
                       [error |-> Text("Missing env vars"),
                        missing |-> Text("the names of the unset variables")]))
        ELSE Step("awaiting", NoResponse, store, hist, NoRateLimit,
                  <<debugPayload(e, phone_number, business_name, owner_name)>>)

\* the handler after the https request ended or failed
debugResume(cur, up) ==
    LET data == up.data
    IN  IF up.kind = "rejected" THEN debugCaught(Text("socket hang up"))
        ELSE IF data.t = "invalid"
        THEN debugCaught(Text("Unexpected token < in JSON at position 0"))
        ELSE IF up.status # 200
        THEN Json(up.status, NoHeaders,
                  [error |-> OrElse(Get(data, "detail"),
                                    Str(<<"API error: ">> \o Decimal(up.status)))])
        ELSE Json(200, NoHeaders,
                  [success |-> Bool(TRUE),
                   conversation_id |-> Get(data, "conversation_id"),
                   message |-> Str(<<"Call started to ">>
                                   \o StringOf(Get(OrElse(cur.req.body, EmptyBody),
                                                   "business_name")))])

----------------------------------------------------------------------------
(* Inputs *)

\* a SHA-256 digest in hexadecimal has 64 characters
HashLen == 64
Token(x, y) == [i \in 1..HashLen |-> IF i % 2 = 1 THEN x ELSE y]

\* process.env: every variable set, or one of them missing
AllSet ==
    [ACCESS_PASSWORD_HASH |-> Str(Token("A", "3")),
     ELEVENLABS_API_KEY |-> Text("xi-key"),
     ELEVENLABS_AGENT_ID |-> Text("agent-1"),
     ELEVENLABS_PHONE_NUMBER_ID |-> Text("phone-1")]
Envs ==
    {AllSet} \cup {[AllSet EXCEPT ![name] = Undefined] : name \in DOMAIN AllSet}

Passwords ==
    {Undefined, Num(7), Str(<<"a", "3">>),
     Str(Token("a", "3")), Str(Token("A", "3")), Str(Token("b", "3"))}

Phones ==
    {Undefined,
     Str(<<"+", "1", "4", "8", "0", "5", "5", "5", "1", "2", "3", "4">>),
     Str(<<"4", "8", "0", "5", "5", "5", "1", "2", "3", "4">>),
     Str(<<"+", "1", "4", "8", "0", "5", "5", "5", "1", "2", "3">>),
     Str(<<"+", "1", "a", "b", "c", "5", "5", "5", "1", "2", "3", "4">>),
     Str(<<"+", "1", "4", "8", "0", "5", "5", "5", "1", "2", "3", "4", "5">>)}

Names ==
    {Undefined, Num(12), Str(<<"A">>), Str(<<"A", "B">>),
     Str(<<" ", "A", " ">>), Str(<<" ", " ", " ">>)}

Bodies ==
    {Undefined}
    \cup {Obj(json([password_hash |-> w, phone_number |-> p,
                    business_name |-> b, owner_name |-> Undefined])) :
            w \in Passwords, p \in Phones, b \in Names}

\* the headers and socket address the rate-limit key is taken from
Forwarded ==
    [headers |-> [xff |-> Str(<<"1", ".", "1", ",", " ", "2", ".", "2">>),
                  realIp |-> Undefined],
     remoteAddress |-> Str(<<"9", ".", "9">>)]
RealIp ==
    [headers |-> [xff |-> Undefined, realIp |-> Str(<<"1", ".", "1">>)],
     remoteAddress |-> Undefined]

Request(handler, method, from, body) ==
    [handler |-> handler, method |-> method, headers |-> from.headers,
     remoteAddress |-> from.remoteAddress, body |-> body]

Requests ==
    {Request("main", "POST", Forwarded, b) : b \in Bodies}
    \cup {Request(h, m, RealIp, b) :
            h \in {"main", "debug"}, m \in {"OPTIONS", "GET", "POST"},
            b \in {c \in Bodies : Get(c, "phone_number") \in {Undefined, Num(0)}}}

\* what the provider can do with a call
Datas ==
    {[t |-> "invalid"], EmptyBody,
     Obj([conversation_id |-> Text("conv-1")]),
     Obj([call_id |-> Text("call-1")]),
     Obj([detail |-> Text("provider detail one")]),
     Obj([detail |-> Text("provider detail two")])}
Upstreams ==
    {[kind |-> "rejected", status |-> 0, data |-> [t |-> "invalid"]]}
    \cup {[kind |-> "response", status |-> st, data |-> d] :
            st \in {200, 201, 400, 401, 402, 404, 429, 500}, d \in Datas}

----------------------------------------------------------------------------
(* State machine *)

NoRequest == Request("none", "none", RealIp, Undefined)
\* the local named response before the upstream call settled
NoUpstream == [kind |-> "none", status |-> 0, data |-> [t |-> "invalid"]]
Idle == [pc |-> "idle", req |-> NoRequest, rateLimit |-> NoRateLimit,
         res |-> NoResponse, calls |-> <<>>, response |-> NoUpstream]
NoReturn == [ip |-> <<>>, at |-> 0, result |-> NoRateLimit]

Slots == {1}

Init ==
    /\ now = 0
    /\ rateLimitStore = EmptyStore
    /\ env \in Envs
    /\ inv = [s \in Slots |-> Idle]
    /\ args = [maxRequests |-> HandlerMaxRequests, windowMs |-> HandlerWindowMs]
    /\ ret = NoReturn
    /\ admitted = EmptyStore

\* a request arrives and its handler runs to its first await or its return
Receive(s, req) ==
    /\ inv[s].pc = "idle"
    /\ \E st \in {IF req.handler = "main"
                   THEN mainHandler(req, rateLimitStore, admitted, now, env)
                   ELSE debugHandler(req, rateLimitStore, admitted, env)} :
           /\ rateLimitStore' = st.store
           /\ admitted' = st.hist
           /\ inv' = [inv EXCEPT ![s] =
                        [pc |-> st.pc, req |-> req, rateLimit |-> st.rateLimit,
                         res |-> st.res, calls |-> st.calls,
                         response |-> NoUpstream]]
    /\ UNCHANGED <<now, env, args, ret>>

\* the upstream call settles and the handler runs to its return
Settle(s, up) ==
    /\ inv[s].pc = "awaiting"
    /\ inv' = [inv EXCEPT ![s].pc = "done",
                          ![s].response = up,
                          ![s].res = IF inv[s].req.handler = "main"
                                     THEN mainResume(inv[s], up)
                                     ELSE debugResume(inv[s], up)]
    /\ UNCHANGED <<now, rateLimitStore, env, args, ret, admitted>>

\* the response is sent: the invocation is over and its locals are gone
Finish(s) ==
    /\ inv[s].pc = "done"
    /\ inv' = [inv EXCEPT ![s] = Idle]
    /\ UNCHANGED <<now, rateLimitStore, env, args, ret, admitted>>

\* the clock advances by d, up to the horizon
Tick(d, horizon) ==
    /\ now + d <= horizon
    /\ now' = now + d
    /\ UNCHANGED <<rateLimitStore, env, inv, args, ret, admitted>>

Arrive == \E req \in Requests : Receive(1, req)
Answer == \E up \in Upstreams : Settle(1, up)

Return == Finish(1)

Next == Arrive \/ Answer \/ Return

Spec == Init /\ [][Next]_vars

----------------------------------------------------------------------------
(* Two invocations of trigger-call.js in one process: an invocation runs
   from its entry to its await, and from the settling of its fetch to its
   return, without interruption; the other invocation can run in between *)

Invocations == {1, 2}

\* requests of one key: one that goes on to the upstream call, one that
\* fails the credential check, and a preflight
ConcurrentRequests ==
    {Request("main", "POST", RealIp,
             Obj(json([password_hash |-> Str(Token("a", "3")),
                       phone_number |-> Str(<<"+", "1", "4", "8", "0", "5",
                                              "5", "5", "1", "2", "3", "4">>),
                       business_name |-> Str(<<"A", "B">>),
                       owner_name |-> Undefined]))),
     Request("main", "POST", Forwarded, Undefined),
     Request("main", "OPTIONS", RealIp, Undefined)}

Providers ==
    {up \in Upstreams :
        \/ up.kind = "rejected"
        \/ up.status = 200 /\ up.data = Obj([conversation_id |-> Text("conv-1")])
        \/ up.status = 402 /\ Get(up.data, "detail") # Undefined}

InitConcurrent ==
    /\ now = 0
    /\ rateLimitStore = EmptyStore
    /\ env = AllSet
    /\ inv = [s \in Invocations |-> Idle]
    /\ args = [maxRequests |-> HandlerMaxRequests, windowMs |-> HandlerWindowMs]
    /\ ret = NoReturn
    /\ admitted = EmptyStore

Enter == \E s \in Invocations : \E req \in ConcurrentRequests : Receive(s, req)
Resume == \E s \in Invocations : \E up \in Providers : Settle(s, up)
Leave == \E s \in Invocations : Finish(s)
\* the window passes while invocations wait for the provider
Pass == Tick(HandlerWindowMs, HandlerWindowMs)

NextConcurrent == Enter \/ Resume \/ Leave \/ Pass

SpecConcurrent == InitConcurrent /\ [][NextConcurrent]_vars

----------------------------------------------------------------------------
(* The rate limiter called directly, with small limits and a moving clock *)

Keys == {<<"1", ".", "1">>, unknown}
\* the windowMs values and the clock steps, in milliseconds
Windows == {1000, 1500}
ClockSteps == {500}

InitRate ==
    /\ now = 0
    /\ rateLimitStore = EmptyStore
    /\ env = AllSet
    /\ inv = [s \in Slots |-> Idle]
    /\ args \in [maxRequests : 1..MaxLimit, windowMs : Windows]
    /\ ret = NoReturn
    /\ admitted = EmptyStore

\* checkRateLimit(ip, args.maxRequests, args.windowMs)
Call(ip) ==
    /\ \E rl \in {checkRateLimit(rateLimitStore, ip, args.maxRequests,
                                 args.windowMs, now)} :
           /\ rateLimitStore' = rl.store
           /\ ret' = [ip |-> ip, at |-> now, result |-> rl.result]
           /\ admitted' = Record(admitted, ip, rl.result, now)
    /\ UNCHANGED <<now, env, inv, args>>

Check == \E ip \in Keys : Call(ip)
Advance == \E d \in ClockSteps : Tick(d, MaxTicks * d)

NextRate == Check \/ Advance

SpecRate == InitRate /\ [][NextRate]_vars

----------------------------------------------------------------------------
(* The rate limiter of the handler over a long time: the clock advances by
   the period of the README's setInterval *)

\* README: maxAge of cleanupRateLimitStore, and the period of its timer
maxAge == 10 * 60 * 1000
sweepInterval == 5 * 60 * 1000

InitLong ==
    /\ now = 0
    /\ rateLimitStore = EmptyStore
    /\ env = AllSet
    /\ inv = [s \in Slots |-> Idle]
    /\ args \in [maxRequests : 1..MaxLimit, windowMs : {HandlerWindowMs}]
    /\ ret = NoReturn
    /\ admitted = EmptyStore

\* time passes; trigger-call.js sets no timer, so nothing else happens
Elapse == Tick(sweepInterval, maxAge + 2 * sweepInterval)

NextLong == Check \/ Elapse

SpecLong == InitLong /\ [][NextLong]_vars

----------------------------------------------------------------------------
(* The rate limiter of the README with its sweep. Its checkRateLimit is the
   one of trigger-call.js, line for line; the sweep runs at any time *)

\* a sweep with a maxAge of 10 seconds
cleanupAfterTenSeconds(store, t) ==
    [k \in {ip \in DOMAIN store :
               ~(\/ Len(store[ip].requests) = 0
                 \/ store[ip].requests[Len(store[ip].requests)] < t - 10 * 1000)}
        |-> store[k]]

\* cleanupRateLimitStore() at clock value t on the Map store
cleanupRateLimitStore(store, t) ==
    [k \in {ip \in DOMAIN store :
               ~(\/ Len(store[ip].requests) = 0
                 \/ store[ip].requests[Len(store[ip].requests)] < t - maxAge)}
        |-> store[k]]

Sweep ==
    /\ rateLimitStore' = cleanupRateLimitStore(rateLimitStore, now)
    /\ UNCHANGED <<now, env, inv, args, ret, admitted>>

\* half a window passes, within the first window
Wait == Tick(HandlerWindowMs \div 2, HandlerWindowMs)
\* the maxAge of the sweep passes, once
Idling == Tick(maxAge, maxAge + HandlerWindowMs)

NextSweep == Check \/ Sweep \/ Wait \/ Idling

SpecSweep == InitLong /\ [][NextSweep]_vars

----------------------------------------------------------------------------
(* Claims about the rate limiter, under SpecRate *)

\* the timestamps recorded for key k that lie in lo..hi
AdmittedIn(k, lo, hi) ==
    IF k \in DOMAIN admitted
    THEN {j \in DOMAIN admitted[k] : lo <= admitted[k][j] /\ admitted[k][j] <= hi}
    ELSE {}

\* C1 as stated: no interval of length windowMs, its two ends included,
\* holds more than maxRequests admitted calls of one key.
C1_AnyInterval ==
    \A k \in DOMAIN admitted : \A i \in DOMAIN admitted[k] :
        Cardinality(AdmittedIn(k, admitted[k][i],
                               admitted[k][i] + args.windowMs))
            <= args.maxRequests

\* C1 amended: no half-open interval of length windowMs, (t - windowMs, t]
\* or [t, t + windowMs), holds more than maxRequests admitted calls of one
\* key.
C1_HalfOpenInterval ==
    \A k \in DOMAIN admitted : \A i \in DOMAIN admitted[k] :
        Cardinality(AdmittedIn(k, admitted[k][i],
                               admitted[k][i] + args.windowMs - 1))
            <= args.maxRequests

\* a key was rejected after more calls than maxRequests were admitted for it
\* over time, and one of its windows is full
C1_Witness ==
    /\ ret.ip \in DOMAIN admitted
    /\ ~ret.result.allowed
    /\ Len(admitted[ret.ip]) > args.maxRequests
    /\ Cardinality(AdmittedIn(ret.ip, ret.at - args.windowMs + 1, ret.at))
         = args.maxRequests

\* the calls admitted for the key of the last call, before that call, in the
\* window that ends at that call
AdmittedBefore ==
    Cardinality(AdmittedIn(ret.ip, ret.at - args.windowMs + 1, ret.at))
    - (IF ret.result.allowed THEN 1 ELSE 0)

\* C2: a call that finds maxRequests calls of its key admitted in the
\* window is rejected, with a retryAfter greater than 0.
C2_RejectedWhenFull ==
    (ret # NoReturn /\ AdmittedBefore >= args.maxRequests)
        => (~ret.result.allowed /\ ret.result.retryAfter > 0)

\* a call is rejected half a second before the window of the oldest call
\* ends: the retryAfter is rounded up to 1
C2_Witness ==
    /\ ret # NoReturn
    /\ AdmittedBefore >= args.maxRequests
    /\ ~ret.result.allowed
    /\ ret.result.resetTime - ret.at = 500
    /\ ret.result.retryAfter = 1

\* C3: a call made windowMs or more after the earliest recorded call of its
\* key prunes that timestamp and is admitted.
C3_AdmittedAfterWindow ==
    [][\A k \in Keys :
         (/\ Call(k)
          /\ k \in DOMAIN rateLimitStore
          /\ rateLimitStore[k].requests # <<>>
          /\ now >= rateLimitStore[k].requests[1] + args.windowMs)
         => (/\ ret'.result.allowed
             /\ \A j \in DOMAIN rateLimitStore'[k].requests :
                    rateLimitStore'[k].requests[j]
                        # rateLimitStore[k].requests[1])]_vars

\* a key whose maxRequests calls were all admitted and later pruned is
\* admitted again, exactly windowMs after its earliest call
C3_Witness ==
    /\ ret # NoReturn
    /\ ret.result.allowed
    /\ ret.result.remaining = args.maxRequests - 1
    /\ Len(admitted[ret.ip]) = args.maxRequests + 1
    /\ ret.at = admitted[ret.ip][1] + args.windowMs

----------------------------------------------------------------------------
(* Claims about the handlers, under Spec *)

Hex == Digit \cup {"a", "b", "c", "d", "e", "f", "A", "B", "C", "D", "E", "F"}

\* a credential in the documented format: 64 hexadecimal characters
WellFormedHash(v) ==
    v.t = "string" /\ Len(v.s) = HashLen /\ \A i \in DOMAIN v.s : v.s[i] \in Hex

\* '+1' followed by exactly 10 decimal digits
NanpNumber(v) ==
    /\ v.t = "string"
    /\ Len(v.s) = 12
    /\ v.s[1] = "+"
    /\ v.s[2] = "1"
    /\ \A i \in 3..12 : v.s[i] \in Digit

\* a name with two characters or more between its surrounding white space
TwoCharName(v) ==
    /\ v.t = "string"
    /\ \E i, j \in DOMAIN v.s :
           i < j /\ v.s[i] \notin WhiteSpace /\ v.s[j] \notin WhiteSpace

\* property name of the body of the request in slot s
Field(s, name) == Get(OrElse(inv[s].req.body, EmptyBody), name)

\* the credential of slot s equals the configured token, whatever the case
TokenMatches(s) ==
    /\ Field(s, "password_hash").t = "string"
    /\ env.ACCESS_PASSWORD_HASH.t = "string"
    /\ toLowerCase(Field(s, "password_hash").s)
         = toLowerCase(env.ACCESS_PASSWORD_HASH.s)

\* the invocation of slot s called checkRateLimit, which admitted it
Admitted(s) == "none" \notin DOMAIN inv[s].rateLimit /\ inv[s].rateLimit.allowed
\* the invocation of slot s called checkRateLimit, which rejected it
Rejected(s) == "none" \notin DOMAIN inv[s].rateLimit /\ ~inv[s].rateLimit.allowed

PhoneError == Text("Invalid phone format. Use +1XXXXXXXXXX")
\* the response of slot s carries the error text
ErrorIs(s, text) ==
    "error" \in DOMAIN inv[s].res.body /\ inv[s].res.body.error = text

\* C4: a POST request that finds 10 requests of its key admitted in the last
\* 60 seconds is answered 429 with a Retry-After header and a body
\* {success: false, error, retryAfter}, retryAfter an integer of 1..60.
C4_EleventhRequest ==
    \A s \in Slots :
        (/\ inv[s].req.handler = "main"
         /\ inv[s].req.method = "POST"
         /\ inv[s].pc = "done"
         /\ Rejected(s))
        => (/\ inv[s].res.status = 429
            /\ "Retry-After" \in DOMAIN inv[s].res.headers
            /\ DOMAIN inv[s].res.body = {"success", "error", "retryAfter"}
            /\ inv[s].res.body.success = Bool(FALSE)
            /\ inv[s].res.body.retryAfter.t = "number"
            /\ inv[s].res.body.retryAfter.n \in 1..60)

\* C5: an OPTIONS request is answered 200 without a body and leaves the
\* rate-limit table as it was, whatever the table holds for its key.
C5_PreflightBypass ==
    [][\A s \in Slots :
         (/\ inv[s].pc = "idle"
          /\ inv'[s].pc # "idle"
          /\ inv'[s].req.method = "OPTIONS")
         => (/\ inv'[s].pc = "done"
             /\ inv'[s].res.status = 200
             /\ ~inv'[s].res.hasBody
             /\ inv'[s].calls = <<>>
             /\ rateLimitStore' = rateLimitStore
             /\ admitted' = admitted)]_vars

\* an OPTIONS request was answered 200 while its key is rate limited
C5_Witness ==
    \E s \in Slots :
        /\ inv[s].req.handler = "main"
        /\ inv[s].req.method = "OPTIONS"
        /\ inv[s].pc = "done"
        /\ inv[s].res.status = 200
        /\ clientIp(inv[s].req) \in DOMAIN rateLimitStore
        /\ Len(filter(rateLimitStore[clientIp(inv[s].req)].requests,
                      now - HandlerWindowMs)) >= HandlerMaxRequests

\* C6: a request whose method is neither POST nor OPTIONS ends with 405 and
\* success: false, without a checkRateLimit call and without an upstream call.
C6_MethodNotAllowed ==
    \A s \in Slots :
        (inv[s].pc # "idle" /\ inv[s].req.method \notin {"POST", "OPTIONS"})
        => (/\ inv[s].pc = "done"
            /\ inv[s].res.status = 405
            /\ "success" \in DOMAIN inv[s].res.body
            /\ inv[s].res.body.success = Bool(FALSE)
            /\ inv[s].rateLimit = NoRateLimit
            /\ inv[s].calls = <<>>)

\* C7: an upstream call is placed only for a POST request that the rate
\* limiter admitted, whose credential equals the configured token, whose
\* phone number is valid and whose business name is valid.
C7_UpstreamOnlyAfterChecks ==
    \A s \in Slots :
        inv[s].calls # <<>>
        => (/\ inv[s].req.method = "POST"
            /\ Admitted(s)
            /\ TokenMatches(s)
            /\ NanpNumber(Field(s, "phone_number"))
            /\ TwoCharName(Field(s, "business_name")))

\* C8: with no expected token configured, a POST request that reaches the
\* credential check (it was not rate limited and carries a well-formed
\* credential) is answered 500, and no upstream call is placed.
C8_FailsClosed ==
    \A s \in Slots :
        (/\ inv[s].pc # "idle"
         /\ inv[s].req.method = "POST"
         /\ inv[s].req.handler = "main" => Admitted(s)
         /\ WellFormedHash(Field(s, "password_hash"))
         /\ env.ACCESS_PASSWORD_HASH.t = "undefined")
        => (/\ inv[s].pc = "done"
            /\ inv[s].res.status = 500
            /\ inv[s].calls = <<>>)

\* C9: of a request that fails several validations the first failure is
\* reported: a missing or malformed credential gives 401, and with a good
\* credential an invalid phone number gives the phone error, 400.
C9_FirstFailureReported ==
    \A s \in Slots :
        (/\ inv[s].req.handler = "main"
         /\ inv[s].req.method = "POST"
         /\ inv[s].pc # "idle"
         /\ Admitted(s))
        => (/\ ~WellFormedHash(Field(s, "password_hash"))
                => (inv[s].pc = "done" /\ inv[s].res.status = 401)
            /\ (/\ WellFormedHash(Field(s, "password_hash"))
                /\ TokenMatches(s)
                /\ ~NanpNumber(Field(s, "phone_number")))
                => (/\ inv[s].pc = "done"
                    /\ inv[s].res.status = 400
                    /\ ErrorIs(s, PhoneError)))

\* a request that passed the rate limit and the credential check passes the
\* phone check exactly when its phone number is '+1' and 10 digits; otherwise
\* it is answered 400 with the phone error and no upstream call
PhoneCheckedExactly ==
    \A s \in Slots :
        (/\ inv[s].req.handler = "main"
         /\ inv[s].req.method = "POST"
         /\ inv[s].pc # "idle"
         /\ Admitted(s)
         /\ TokenMatches(s))
        => IF NanpNumber(Field(s, "phone_number"))
           THEN inv[s].pc = "done" => ~ErrorIs(s, PhoneError)
           ELSE /\ inv[s].pc = "done"
                /\ inv[s].res.status = 400
                /\ ErrorIs(s, PhoneError)
                /\ inv[s].calls = <<>>

\* the four phone numbers of the specification: the first went on to the
\* upstream call, each of the others was answered 400
PhoneExamples ==
    \A s \in Slots :
        (/\ inv[s].req.handler = "main"
         /\ inv[s].req.method = "POST"
         /\ inv[s].pc # "idle"
         /\ Admitted(s)
         /\ TokenMatches(s))
        => LET p == Field(s, "phone_number")
           IN  /\ p = Str(<<"+", "1", "4", "8", "0", "5", "5", "5", "1", "2", "3", "4">>)
                    => ~(inv[s].pc = "done" /\ ErrorIs(s, PhoneError))
               /\ p \in {Str(<<"4", "8", "0", "5", "5", "5", "1", "2", "3", "4">>),
                         Str(<<"+", "1", "4", "8", "0", "5", "5", "5", "1", "2", "3">>),
                         Str(<<"+", "1", "a", "b", "c", "5", "5", "5", "1", "2", "3", "4">>)}
                    => (inv[s].pc = "done" /\ inv[s].res.status = 400)

\* C10: the phone check of trigger-call.js passes a phone number exactly when
\* it is '+1' followed by 10 decimal digits: +14805551234 passes; 4805551234,
\* +1480555123 and +1abc5551234 are answered 400 before any upstream call.
C10_PhoneValidator == PhoneCheckedExactly /\ PhoneExamples

\* +1abc5551234 was answered 400 with the phone error, with a good credential
\* and before any upstream call
C10_Witness ==
    \E s \in Slots :
        /\ inv[s].req.handler = "main"
        /\ Admitted(s)
        /\ TokenMatches(s)
        /\ Field(s, "phone_number")
             = Str(<<"+", "1", "a", "b", "c", "5", "5", "5", "1", "2", "3", "4">>)
        /\ inv[s].pc = "done"
        /\ inv[s].res.status = 400
        /\ ErrorIs(s, PhoneError)
        /\ inv[s].calls = <<>>

NameError == Text("Business name required (min 2 chars)")

\* C11: a POST request that passed the rate limit, the credential check and
\* the phone check passes the business-name check exactly when its name has
\* a trimmed length of at least 2, and then its upstream call is placed
\* (with the provider configured); a missing name and a name of trimmed
\* length 0 or 1 are answered 400 with the name error; nothing else places a
\* call.
C11_BusinessNameValidator ==
    \A s \in Slots :
        (/\ inv[s].req.handler = "main"
         /\ inv[s].req.method = "POST"
         /\ inv[s].pc # "idle"
         /\ Admitted(s)
         /\ TokenMatches(s)
         /\ NanpNumber(Field(s, "phone_number")))
        => LET name == Field(s, "business_name")
           IN  /\ TwoCharName(name)
                    => /\ ~ErrorIs(s, NameError)
                       /\ (env = AllSet) => inv[s].calls # <<>>
               /\ ~TwoCharName(name) => inv[s].calls = <<>>
               /\ (~TwoCharName(name) /\ name.t \in {"undefined", "string"})
                    => (/\ inv[s].pc = "done"
                        /\ inv[s].res.status = 400
                        /\ ErrorIs(s, NameError))

\* the name "AB" passed and the upstream call for it is in flight
C11_Witness ==
    \E s \in Slots :
        /\ inv[s].req.handler = "main"
        /\ Admitted(s)
        /\ TokenMatches(s)
        /\ NanpNumber(Field(s, "phone_number"))
        /\ Field(s, "business_name") = Str(<<"A", "B">>)
        /\ inv[s].pc = "awaiting"
        /\ Len(inv[s].calls) = 1
        /\ inv[s].calls[1].business_name = Str(<<"A", "B">>)

----------------------------------------------------------------------------
(* Claims about the answer to the upstream call, under Spec *)

\* the invocation of slot s is over and the provider answered its call with
\* the status code
Answered(s, status) ==
    /\ inv[s].pc = "done"
    /\ inv[s].response.kind = "response"
    /\ inv[s].response.status = status

\* the response of slot s says success: false
Failure(s) ==
    "success" \in DOMAIN inv[s].res.body /\ inv[s].res.body.success = Bool(FALSE)

\* the response of slot s is the success response: 200, success: true,
\* status 'initiated' and a conversation identifier
Success(s) ==
    /\ inv[s].res.status = 200
    /\ {"success", "status", "conversation_id"} \subseteq DOMAIN inv[s].res.body
    /\ inv[s].res.body.success = Bool(TRUE)
    /\ inv[s].res.body.status = Text("initiated")
    /\ inv[s].res.body.conversation_id
         \in {Get(inv[s].response.data, "conversation_id"),
              Get(inv[s].response.data, "call_id")}

\* C12: when the provider answers 402, trigger-call.js answers with
\* success: false and a status that is not the generic 500.
C12_InsufficientBalance ==
    \A s \in Slots :
        (inv[s].req.handler = "main" /\ Answered(s, 402))
        => (Failure(s) /\ inv[s].res.status # 500)

C14_SuccessIffUpstream2xx ==
    \A s \in Slots :
        (inv[s].pc = "done" /\ inv[s].response.kind # "none")
        => LET ok == /\ inv[s].response.kind = "response"
                     /\ inv[s].response.status \in 200..299
           IN  /\ ok <=> Success(s)
               /\ ~ok => (Failure(s) \/ "success" \notin DOMAIN inv[s].res.body)

\* C15: every response to a request that is not OPTIONS has a JSON body
\* with a boolean success field, and an error string when success is false.
C15_JsonEnvelope ==
    \A s \in Slots :
        (inv[s].pc = "done" /\ inv[s].req.method # "OPTIONS")
        => (/\ inv[s].res.hasBody
            /\ "success" \in DOMAIN inv[s].res.body
            /\ inv[s].res.body.success.t = "boolean"
            /\ inv[s].res.body.success = Bool(FALSE)
                 => (/\ "error" \in DOMAIN inv[s].res.body
                     /\ inv[s].res.body.error.t = "string"))

\* C16: an invocation places at most one upstream call and sends one
\* response: while its call is in flight no response has been sent; the
\* response follows the settling of the call, whatever the provider did;
\* after a response nothing more happens in the invocation, no second call
\* and no second response.
C16_OneCallOneResponse ==
    [][\A s \in Slots :
         /\ Len(inv'[s].calls) <= 1
         /\ inv'[s].pc = "awaiting"
              => (/\ Len(inv'[s].calls) = 1
                  /\ inv'[s].res = NoResponse
                  /\ inv'[s].response = NoUpstream)
         /\ inv'[s].pc = "done"
              => (/\ inv'[s].res # NoResponse
                  /\ inv'[s].calls # <<>> => inv'[s].response # NoUpstream)
         /\ inv[s].pc = "awaiting"
              => (/\ inv'[s].pc = "done"
                  /\ inv'[s].calls = inv[s].calls)
         /\ inv[s].pc = "done" => inv'[s] = Idle]_vars

\* the one call of a request failed in transport and the request was
\* answered 500, with that one call on record
C16_Witness ==
    \E s \in Slots :
        /\ inv[s].req.handler = "main"
        /\ inv[s].pc = "done"
        /\ Len(inv[s].calls) = 1
        /\ inv[s].response.kind = "rejected"
        /\ inv[s].res.status = 500
        /\ Failure(s)

----------------------------------------------------------------------------
(* Claims about the rate-limit table, under SpecRate *)

\* C17: after a checkRateLimit call for a key, every timestamp stored for
\* that key is greater than now - windowMs, the count field is the number of
\* stored timestamps, and no key ever holds more than maxRequests timestamps.
C17_StoreWithinWindow ==
    /\ \A k \in DOMAIN rateLimitStore :
           /\ Len(rateLimitStore[k].requests) <= args.maxRequests
           /\ rateLimitStore[k].count = Len(rateLimitStore[k].requests)
    /\ ret # NoReturn
         => /\ ret.ip \in DOMAIN rateLimitStore
            /\ \A j \in DOMAIN rateLimitStore[ret.ip].requests :
                   rateLimitStore[ret.ip].requests[j] > ret.at - args.windowMs

\* the last call pruned a timestamp that had left the window and left the
\* key with a full window of newer timestamps
C17_Witness ==
    /\ ret # NoReturn
    /\ AdmittedIn(ret.ip, 0, ret.at - args.windowMs) # {}
    /\ Len(rateLimitStore[ret.ip].requests) = args.maxRequests
    /\ \A j \in DOMAIN rateLimitStore[ret.ip].requests :
           rateLimitStore[ret.ip].requests[j] > ret.at - args.windowMs

\* C18: with a sweep every 5 minutes that removes the keys whose most recent
\* timestamp is older than 10 minutes, the table never holds a key whose
\* most recent timestamp is more than 15 minutes old.
C18_SweptTable ==
    \A k \in DOMAIN rateLimitStore :
        LET requests == rateLimitStore[k].requests
        IN  /\ requests # <<>>
            /\ requests[Len(requests)] >= now - (maxAge + sweepInterval)

----------------------------------------------------------------------------
(* Claims about concurrent invocations, under SpecConcurrent *)

\* C19: under every interleaving of two invocations of trigger-call.js no
\* admission is lost and none is counted twice: two invocations admitted at
\* the same clock value for the same key saw different counts, the table
\* holds every admitted timestamp that is still in the window, and no
\* half-open window of the key holds more than 10 admitted requests.
C19_AtomicUpdate ==
    /\ \A s, t \in Invocations :
           (/\ s # t
            /\ inv[s].pc # "idle" /\ inv[t].pc # "idle"
            /\ Admitted(s) /\ Admitted(t)
            /\ clientIp(inv[s].req) = clientIp(inv[t].req)
            /\ inv[s].rateLimit.resetTime = inv[t].rateLimit.resetTime)
           => inv[s].rateLimit.remaining # inv[t].rateLimit.remaining
    /\ \A k \in DOMAIN admitted :
           /\ k \in DOMAIN rateLimitStore
           /\ filter(rateLimitStore[k].requests, now - HandlerWindowMs)
                = filter(admitted[k], now - HandlerWindowMs)
           /\ \A i \in DOMAIN admitted[k] :
                  Cardinality(AdmittedIn(k, admitted[k][i],
                                         admitted[k][i] + HandlerWindowMs - 1))
                      <= HandlerMaxRequests

\* two invocations wait for the provider at the same time, admitted at the
\* same clock value for the same key, the second as the tenth request of
\* the window
C19_Witness ==
    \E s, t \in Invocations :
        /\ s # t
        /\ inv[s].pc = "awaiting" /\ inv[t].pc = "awaiting"
        /\ clientIp(inv[s].req) = clientIp(inv[t].req)
        /\ inv[s].rateLimit.resetTime = inv[t].rateLimit.resetTime
        /\ inv[s].rateLimit.remaining = 0
        /\ inv[t].rateLimit.remaining \in 1..9

----------------------------------------------------------------------------
(* Claims about the slot of a request, under Spec *)

\* C20: a POST request that was not answered 429 was admitted by the rate
\* limiter and its timestamp is in the table, whatever became of it after:
\* a failed credential check, a failed validation, an upstream call.
C20_SlotConsumed ==
    \A s \in Slots :
        (/\ inv[s].pc # "idle"
         /\ inv[s].req.method = "POST"
         /\ ~(inv[s].pc = "done" /\ inv[s].res.status = 429))
        => (/\ Admitted(s)
            /\ clientIp(inv[s].req) \in DOMAIN rateLimitStore
            /\ rateLimitStore[clientIp(inv[s].req)].requests # <<>>)

----------------------------------------------------------------------------
(* Claims about rejected calls and about keys, under SpecRate *)

\* C21: a rejected checkRateLimit call leaves of the key's timestamps
\* exactly those that are still in the window, in their order, and records
\* nothing; a rejection that follows a rejection of the same key reports the
\* same resetTime, so calls made while the key is limited do not move the
\* time at which it is admitted again.
C21_RejectedRecordsNothing ==
    [][\A k \in Keys :
         (Call(k) /\ ~ret'.result.allowed)
         => LET old == rateLimitStore[k].requests
                new == rateLimitStore'[k].requests
            IN  /\ \E n \in 0..Len(old) :
                       /\ new = SubSeq(old, n + 1, Len(old))
                       /\ \A i \in 1..n : old[i] <= now - args.windowMs
                /\ \A j \in DOMAIN new : new[j] > now - args.windowMs
                /\ admitted' = admitted
                /\ ret'.result.resetTime = new[1] + args.windowMs
                /\ (ret # NoReturn /\ ret.ip = k /\ ~ret.result.allowed)
                     => ret'.result.resetTime = ret.result.resetTime]_vars

\* a key is rejected later than its last admission, one second or less
\* before its oldest timestamp leaves the window, and its table entry holds
\* a full window of admitted timestamps and nothing of the rejected call
C21_Witness ==
    /\ ret # NoReturn
    /\ ~ret.result.allowed
    /\ ret.at > admitted[ret.ip][Len(admitted[ret.ip])]
    /\ Len(rateLimitStore[ret.ip].requests) = args.maxRequests
    /\ ret.result.resetTime = rateLimitStore[ret.ip].requests[1] + args.windowMs
    /\ ret.result.retryAfter = 1

InWindow(k) == Cardinality(AdmittedIn(k, now - args.windowMs + 1, now))

\* C23: a checkRateLimit call for a key changes no other key's entry, and
\* its outcome follows from the calls admitted for its own key alone: it is
\* admitted exactly when fewer than maxRequests of them are in the window,
\* and remaining counts them.
C23_KeysIndependent ==
    [][\A k \in Keys :
         Call(k)
         => /\ DOMAIN rateLimitStore' = DOMAIN rateLimitStore \cup {k}
            /\ \A j \in DOMAIN rateLimitStore :
                   j # k => rateLimitStore'[j] = rateLimitStore[j]
            /\ \A j \in DOMAIN admitted :
                   j # k => (j \in DOMAIN admitted' /\ admitted'[j] = admitted[j])
            /\ ret'.result.allowed <=> InWindow(k) < args.maxRequests
            /\ ret'.result.allowed
                 => ret'.result.remaining = args.maxRequests - InWindow(k) - 1]_vars

\* a key is admitted while the other key is at its limit
C23_Witness ==
    /\ ret # NoReturn
    /\ ret.result.allowed
    /\ \E j \in DOMAIN rateLimitStore :
           /\ j # ret.ip
           /\ Len(filter(rateLimitStore[j].requests, now - args.windowMs))
                = args.maxRequests

----------------------------------------------------------------------------
(* Claims about the sweep of the README, under SpecSweep *)

\* the oldest call of key k admitted in the window that ends now
OldestInWindow(k) ==
    LET i == CHOOSE i \in AdmittedIn(k, now - args.windowMs + 1, now) :
                 \A j \in AdmittedIn(k, now - args.windowMs + 1, now) : i <= j
    IN  admitted[k][i]

\* C24: a step that is not a call, a sweep above all, leaves alone the
\* entry of every key that has a timestamp in the window,
\* and with sweeps at any time every checkRateLimit call returns the
\* allowed, remaining and retryAfter that follow from the calls admitted for
\* its key, which the sweep does not touch.
C24_SweepInvisible ==
    [][/\ \A k \in DOMAIN rateLimitStore :
            (/\ ret' = ret
             /\ \E j \in DOMAIN rateLimitStore[k].requests :
                    rateLimitStore[k].requests[j] > now - args.windowMs)
            => (/\ k \in DOMAIN rateLimitStore'
                /\ rateLimitStore'[k] = rateLimitStore[k])
       /\ \A k \in Keys :
            Call(k)
            => /\ ret'.result.allowed <=> InWindow(k) < args.maxRequests
               /\ ret'.result.allowed
                    => ret'.result.remaining = args.maxRequests - InWindow(k) - 1
               /\ ~ret'.result.allowed
                    => /\ ret'.result.remaining = 0
                       /\ ret'.result.retryAfter
                            = CeilDiv(OldestInWindow(k) + args.windowMs - now,
                                      1000)]_vars

\* a key is rejected after a sweep deleted the entry of the other key
C24_Witness ==
    /\ ret # NoReturn
    /\ ~ret.result.allowed
    /\ \E j \in DOMAIN admitted : j \notin DOMAIN rateLimitStore

----------------------------------------------------------------------------
(* Claims about two upstream failures, under SpecConcurrent *)

\* the provider answered the call of invocation s with a status outside 2xx
UpstreamFailed(s) ==
    /\ inv[s].pc = "done"
    /\ inv[s].response.kind = "response"
    /\ inv[s].response.status \notin 200..299

====
